---- MODULE Spec2Model ----
(***************************************************************************)
(* Model of the zrepl replication core: the zfs.DatasetPath value type,    *)
(* the streaming lister zfs.ZFSListChan with its consumer, and the pull    *)
(* endpoint cmd.Puller.                                                    *)
(*                                                                         *)
(* A Go string is a sequence of one-character strings, so that splitting,  *)
(* joining and character tests are computed as the code computes them.     *)
(***************************************************************************)
EXTENDS Integers, Sequences, FiniteSets

\* ------------------------------------------------------------------ bounds
\* longest subprocess output, in lines
MaxLines == 2
\* number of endpoint calls in one run
MaxCalls == 3

\* ------------------------------------------------------- string functions
\* strings.ContainsAny(s, chars)
ContainsAny(s, chars) == \E i \in 1..Len(s) : s[i] \in chars

\* strings.Index(s, sep) for a one-character sep; 0 when absent (Go: -1)
Index(s, sep) ==
  IF \E i \in 1..Len(s) : s[i] = sep
  THEN CHOOSE i \in 1..Len(s) : s[i] = sep /\ \A j \in 1..(i-1) : s[j] # sep
  ELSE 0

\* strings.SplitN(s, sep, n): n = 0 gives no fields, n < 0 splits at every
\* sep, n > 0 gives at most n fields, the last one the unsplit remainder.
RECURSIVE SplitN(_, _, _)
SplitN(s, sep, n) ==
  IF n = 0 THEN <<>>
  ELSE IF n = 1 \/ Index(s, sep) = 0 THEN <<s>>
  ELSE <<SubSeq(s, 1, Index(s, sep) - 1)>>
         \o SplitN(SubSeq(s, Index(s, sep) + 1, Len(s)), sep, n - 1)

\* strings.Split(s, sep)
Split(s, sep) == SplitN(s, sep, -1)

\* strings.Join(comps, sep)
RECURSIVE Join(_, _)
Join(comps, sep) ==
  IF Len(comps) = 0 THEN <<>>
  ELSE IF Len(comps) = 1 THEN comps[1]
  ELSE comps[1] \o <<sep>> \o Join(Tail(comps), sep)

\* ------------------------------------------------------------ DatasetPath
FORBIDDEN == {"@", "#", "|", "\t", " ", "<", ">", "*"}

\* NewDatasetPath(s): err is "none" or the validation error
NewDatasetPath(s) ==
  IF s = <<>> THEN [err |-> "none", comps |-> <<>>]
  ELSE IF ContainsAny(s, FORBIDDEN) THEN [err |-> "forbidden", comps |-> <<>>]
  ELSE LET comps == Split(s, "/")
       IN IF comps[Len(comps)] = <<>>
          THEN [err |-> "trailing_slash", comps |-> comps]
          ELSE [err |-> "none", comps |-> comps]

\* a ToString that ends every path with a slash
ToStringTrailing(comps) == Join(comps, "/") \o <<"/">>

\* DatasetPath.ToString
ToString(comps) == Join(comps, "/")

\* -------------------------------------------------------- sample inputs
\* raw filesystem names handed to the endpoint
PathStrings ==
  { <<>>, <<"a">>, <<"a", "/", "b">>, <<"a", "/">>, <<"a", "@">> }

ValidPaths ==
  { NewDatasetPath(s).comps : s \in {t \in PathStrings : NewDatasetPath(t).err = "none"} }

\* resume tokens; the empty string is "no token"
Tokens == { <<>>, <<"x">>, <<"y">> }

\* -------------------------------------------------- policy (DatasetMapFilter)
\* A mapping either cannot be inverted, or its inverted filter decides each
\* path: "pass" = (true, nil), "reject" = (false, nil), "err" = (_, err).
Decisions == {"pass", "reject", "err"}
PassAll == [p \in ValidPaths |-> "pass"]
Mappings ==
  { [invertible |-> FALSE, inv |-> PassAll],
    [invertible |-> TRUE, inv |-> PassAll],
    [invertible |-> TRUE, inv |-> [p \in ValidPaths |-> "reject"]],
    [invertible |-> TRUE, inv |-> [p \in ValidPaths |-> IF Len(p) = 1 THEN "reject" ELSE "pass"]],
    [invertible |-> TRUE, inv |-> [p \in ValidPaths |-> IF Len(p) = 2 THEN "reject" ELSE "pass"]],
    [invertible |-> TRUE, inv |-> [p \in ValidPaths |-> IF Len(p) = 1 THEN "err" ELSE "pass"]] }

\* DatasetMapFilter.InvertedFilter()
InvertedFilter(m) ==
  IF m.invertible THEN [err |-> FALSE, filter |-> m.inv]
  ELSE [err |-> TRUE, filter |-> m.inv]

\* DatasetMapFilter.Filter(dp)
Filter(f, dp) == [pass |-> f[dp] = "pass", err |-> f[dp] = "err"]

\* ------------------------------------------------------------------ state
VARIABLES
  Mapping,    \* Puller.Mapping, the policy the endpoint consults
  lastCall,   \* the most recent endpoint call: request, environment, outcome
  ncalls,     \* endpoint calls made so far
  properties, \* number of properties requested from zfs list
  output,     \* the lines the zfs list subprocess has emitted to the scanner
  ppc,        \* position of the ZFSListChan goroutine
  pending,    \* the result ZFSListChan is sending
  cancelled,  \* ctx.Done() is closed
  cancelAt,   \* position of ZFSListChan when the cancellation fired
  closed,     \* the out channel is closed
  cmd,        \* the subprocess handle: "none", "created", "started", "closed"
  cpc,        \* position of the consumer of the out channel
  cur,        \* the item the consumer has just received
  received,   \* every item the consumer received, in order
  fss,        \* ListFilesystems' result slice
  lfRet,      \* what ListFilesystems' return statement returned
  path,       \* a DatasetPath value: its comps and where it came from
  zcall       \* the most recent call of a zfs package function: inputs, outcome

listVars == <<properties, output, ppc, pending, cancelled, cancelAt, closed, cmd,
              cpc, cur, received, fss, lfRet>>
zfsVars == <<path, zcall>>
vars == <<Mapping, lastCall, ncalls, properties, output, ppc, pending, cancelled,
          cancelAt, closed, cmd, cpc, cur, received, fss, lfRet, path, zcall>>

\* no DatasetPath value yet, no zfs package call yet
NoPath == [comps |-> <<>>, origin |-> "none"]
NoZCall == [fn |-> "none"]

\* ------------------------------------------------- zfs calls of the endpoint
\* outcomes the local zfs binary can produce for the calls below
GetOutcomes == {[err |-> TRUE, token |-> <<>>]} \cup {[err |-> FALSE, token |-> t] : t \in Tokens}
RecvOutcomes == {"ok", "cmd", "start"}
ListOutcomes == {"ok", "zfs"}

\* the record an endpoint call returns: its error kind and the zfs
\* subcommands it invoked, in order
Ret(err, execs) == [err |-> err, execs |-> execs]

\* zfs.ZFSListFilesystemVersions(dp, filter): runs zfs list for the path
ZFSListFilesystemVersions(dp, lo) ==
  Ret(IF lo = "ok" THEN "none" ELSE "zfs", << <<"list", ToString(dp)>> >>)

\* zfs.ZFSGetReceiveResumeToken(dp): runs zfs get for the path
ZFSGetReceiveResumeToken(dp, g) ==
  [err |-> g.err, token |-> g.token, execs |-> << <<"get", ToString(dp)>> >>]

\* zfs.ZFSRecvWriter(dp): w is what building and starting the command gives
ZFSRecvWriter(dp, w) ==
  IF w = "cmd" THEN Ret("cmd", <<>>)
  ELSE IF w = "start" THEN Ret("start", << <<"recv", ToString(dp)>> >>)
  ELSE Ret("none", << <<"recv", ToString(dp)>> >>)

\* ------------------------------------------------------------------ Puller
\* the prologue with the decision of the previous call on the same name kept
FilterCheckCached(fs, m) ==
  LET dp == NewDatasetPath(fs) IN
  IF dp.err # "none" THEN "validation"
  ELSE IF lastCall.fs = fs /\ lastCall.err = "filtered" THEN "filtered"
  ELSE LET f == InvertedFilter(m) IN
       IF f.err THEN "inverted"
       ELSE LET d == Filter(f.filter, dp.comps) IN
            IF d.err THEN "filter"
            ELSE IF ~d.pass THEN "filtered"
            ELSE "none"

\* the prologue without the `if !pass` return
FilterCheckNoReject(fs, m) ==
  LET dp == NewDatasetPath(fs) IN
  IF dp.err # "none" THEN "validation"
  ELSE LET f == InvertedFilter(m) IN
       IF f.err THEN "inverted"
       ELSE LET d == Filter(f.filter, dp.comps) IN
            IF d.err THEN "filter"
            ELSE "none"

\* the prologue with the inverted filter built before the name is parsed
FilterCheckLateValidation(fs, m) ==
  LET dp == NewDatasetPath(fs)
      f == InvertedFilter(m) IN
  IF f.err THEN "inverted"
  ELSE IF dp.err # "none" THEN "validation"
  ELSE LET d == Filter(f.filter, dp.comps) IN
       IF d.err THEN "filter"
       ELSE IF ~d.pass THEN "filtered"
       ELSE "none"

\* the filter prologue shared by ListFilesystemVersions and Receive:
\* "none" when the path parses and the inverted filter passes it
FilterCheck(fs, m) ==
  LET dp == NewDatasetPath(fs) IN
  IF dp.err # "none" THEN "validation"
  ELSE LET f == InvertedFilter(m) IN
       IF f.err THEN "inverted"
       ELSE LET d == Filter(f.filter, dp.comps) IN
            IF d.err THEN "filter"
            ELSE IF ~d.pass THEN "filtered"
            ELSE "none"

\* Puller.ListFilesystemVersions(fs)
ListFilesystemVersions(fs, m, lo) ==
  IF FilterCheck(fs, m) # "none" THEN Ret(FilterCheck(fs, m), <<>>)
  ELSE ZFSListFilesystemVersions(NewDatasetPath(fs).comps, lo)

\* a Send that runs zfs send
SendDelegates(r) == Ret("none", << <<"send", r>> >>)

\* Puller.Send(r)
Send(r) == Ret("puller does not send", <<>>)

\* the check with a missing local token accepted
ResumeCheckLax(dp, token, g) ==
  IF token # <<>>
  THEN LET l == ZFSGetReceiveResumeToken(dp, g) IN
       IF l.err THEN Ret("get", l.execs)
       ELSE IF l.token # <<>> /\ l.token # token THEN Ret("mismatch", l.execs)
       ELSE Ret("none", l.execs)
  ELSE Ret("none", <<>>)

\* the resume-token check of Puller.Receive
ResumeCheck(dp, token, g) ==
  IF token # <<>>
  THEN LET l == ZFSGetReceiveResumeToken(dp, g) IN
       IF l.err THEN Ret("get", l.execs)
       ELSE IF l.token # token THEN Ret("mismatch", l.execs)
       ELSE Ret("none", l.execs)
  ELSE Ret("none", <<>>)

\* Puller.Receive(r)
Receive(r, m, g, w) ==
  IF FilterCheck(r.Filesystem, m) # "none" THEN Ret(FilterCheck(r.Filesystem, m), <<>>)
  ELSE LET dp == NewDatasetPath(r.Filesystem).comps
           c == ResumeCheck(dp, r.ResumeToken, g)
       IN IF c.err # "none" THEN c
          ELSE LET wr == ZFSRecvWriter(dp, w)
               IN Ret(wr.err, c.execs \o wr.execs)

ReceiveRequests == [Filesystem : PathStrings, ResumeToken : Tokens]

NoGet == [err |-> FALSE, token |-> <<>>]
NoCall == [op |-> "none", fs |-> <<>>, token |-> <<>>, decision |-> "n/a",
           flipped |-> FALSE, get |-> NoGet, err |-> "none", execs |-> <<>>]

\* what the policy in force says about the raw name fs: "n/a" when the name
\* is no path or the mapping has no inverted filter, else the inverted
\* filter's decision
PolicyDecision(m, fs) ==
  IF NewDatasetPath(fs).err # "none" \/ ~m.invertible THEN "n/a"
  ELSE m.inv[NewDatasetPath(fs).comps]

\* a call is made only while no listing runs and the process has not crashed
CanCall == cpc = "idle" /\ ncalls < MaxCalls

Called(op, fs, token, g, res) ==
  /\ lastCall' = [op |-> op, fs |-> fs, token |-> token,
                  decision |-> PolicyDecision(Mapping, fs),
                  flipped |-> /\ lastCall.fs = fs
                              /\ lastCall.decision # "n/a"
                              /\ PolicyDecision(Mapping, fs) # "n/a"
                              /\ lastCall.decision # PolicyDecision(Mapping, fs),
                  get |-> g, err |-> res.err, execs |-> res.execs]
  /\ ncalls' = ncalls + 1
  /\ UNCHANGED Mapping

CallListFilesystemVersions ==
  /\ CanCall
  /\ \E fs \in PathStrings, lo \in ListOutcomes :
       Called("ListFilesystemVersions", fs, <<>>, NoGet,
              ListFilesystemVersions(fs, Mapping, lo))
  /\ UNCHANGED listVars
  /\ UNCHANGED zfsVars

CallReceive ==
  /\ CanCall
  /\ \E r \in ReceiveRequests, g \in GetOutcomes, w \in RecvOutcomes :
       Called("Receive", r.Filesystem, r.ResumeToken, g, Receive(r, Mapping, g, w))
  /\ UNCHANGED listVars
  /\ UNCHANGED zfsVars

CallSend ==
  /\ CanCall
  /\ \E fs \in PathStrings :
       Called("Send", fs, <<>>, NoGet, Send(fs))
  /\ UNCHANGED listVars
  /\ UNCHANGED zfsVars

\* the operator replaces the policy between calls
ChangePolicy ==
  /\ cpc = "idle"
  /\ \E m \in Mappings : m # Mapping /\ Mapping' = m
  /\ UNCHANGED <<lastCall, ncalls>>
  /\ UNCHANGED listVars
  /\ UNCHANGED zfsVars

\* ------------------------------------------------------------ ZFSListChan
\* lines the zfs list subprocess may emit
Lines ==
  { <<"a", "\t", "-">>, <<"b", "\t", "x">>, <<"a">>, <<"a", "\t", "b", "\t", "c">> }

\* ZFSListResult{fields, err}
Row(fields) == [fields |-> fields, err |-> "none"]
ErrItem(e) == [fields |-> <<>>, err |-> e]
NoItem == [fields |-> <<>>, err |-> "unset"]

\* the result without the field-count check
LineResultUnchecked(line, n) == Row(SplitN(line, "\t", n))

\* the result built from one scanned line
LineResult(line, n) ==
  LET fields == SplitN(line, "\t", n)
  IN IF Len(fields) # n THEN ErrItem("unexpected output") ELSE Row(fields)

\* the scan loop with sendResult's return value ignored
AfterSendIgnoresDone(item, done) ==
  IF item.err = "none" THEN "scan" ELSE "return"

\* where ZFSListChan continues after sendResult returned done: only a row
\* that was delivered continues the scan loop
AfterSend(item, done) ==
  IF item.err = "none" /\ ~done THEN "scan" ELSE "return"

\* neither goroutine has panicked
Alive == ppc # "panic" /\ cpc # "panic"

\* cmd, err := rwccmd.CommandContext(...)
P_Command ==
  /\ Alive /\ ppc = "command"
  /\ \/ cmd' = "created" /\ ppc' = "start" /\ UNCHANGED pending
     \/ pending' = ErrItem("command") /\ ppc' = "send" /\ UNCHANGED cmd
  /\ UNCHANGED <<Mapping, lastCall, ncalls, properties, output, cancelled, cancelAt,
                 closed, cpc, cur, received, fss, lfRet>>
  /\ UNCHANGED zfsVars

\* err = cmd.Start(); defer cmd.Close()
P_Start ==
  /\ Alive /\ ppc = "start"
  /\ \/ cmd' = "started" /\ ppc' = "scan" /\ UNCHANGED pending
     \/ pending' = ErrItem("start") /\ ppc' = "send" /\ UNCHANGED cmd
  /\ UNCHANGED <<Mapping, lastCall, ncalls, properties, output, cancelled, cancelAt,
                 closed, cpc, cur, received, fss, lfRet>>
  /\ UNCHANGED zfsVars

\* s.Scan() returns a line: split it and build the result to send
P_ScanLine ==
  /\ Alive /\ ppc = "scan" /\ Len(output) < MaxLines
  /\ \E line \in Lines :
       /\ output' = Append(output, line)
       /\ pending' = LineResult(line, properties)
  /\ ppc' = "send"
  /\ UNCHANGED <<Mapping, lastCall, ncalls, properties, cancelled, cancelAt, closed,
                 cmd, cpc, cur, received, fss, lfRet>>
  /\ UNCHANGED zfsVars

\* s.Scan() returns false and s.Err() is nil
P_ScanEOF ==
  /\ Alive /\ ppc = "scan"
  /\ ppc' = "return"
  /\ UNCHANGED <<Mapping, lastCall, ncalls, properties, output, pending, cancelled,
                 cancelAt, closed, cmd, cpc, cur, received, fss, lfRet>>
  /\ UNCHANGED zfsVars

\* s.Scan() returns false and s.Err() is set (over-long line, read error)
P_ScanErr ==
  /\ Alive /\ ppc = "scan"
  /\ pending' = ErrItem("scan")
  /\ ppc' = "send"
  /\ UNCHANGED <<Mapping, lastCall, ncalls, properties, output, cancelled, cancelAt,
                 closed, cmd, cpc, cur, received, fss, lfRet>>
  /\ UNCHANGED zfsVars

\* sendResult's select takes the send case: a receiver is waiting
P_SelectSend ==
  /\ Alive /\ ppc = "send" /\ cpc = "parked" /\ ~closed
  /\ cur' = pending
  /\ received' = Append(received, pending)
  /\ cpc' = "got"
  /\ ppc' = AfterSend(pending, FALSE)
  /\ pending' = NoItem
  /\ UNCHANGED <<Mapping, lastCall, ncalls, properties, output, cancelled, cancelAt,
                 closed, cmd, fss, lfRet>>
  /\ UNCHANGED zfsVars

\* the ctx.Done() case dropping the row and scanning on
P_SelectDoneSkips ==
  /\ ppc # "panic" /\ cpc # "panic" /\ ppc = "send" /\ cancelled
  /\ ppc' = "scan"
  /\ pending' = NoItem
  /\ UNCHANGED <<Mapping, lastCall, ncalls, properties, output, cancelled, cancelAt,
                 closed, cmd, cpc, cur, received, fss, lfRet>>
  /\ UNCHANGED zfsVars

\* sendResult's select takes the ctx.Done() case
P_SelectDone ==
  /\ Alive /\ ppc = "send" /\ cancelled
  /\ ppc' = AfterSend(pending, TRUE)
  /\ pending' = NoItem
  /\ UNCHANGED <<Mapping, lastCall, ncalls, properties, output, cancelled, cancelAt,
                 closed, cmd, cpc, cur, received, fss, lfRet>>
  /\ UNCHANGED zfsVars

\* a select with a default case: the result is dropped when nobody receives
P_SelectDefault ==
  /\ ppc = "send" /\ cpc # "parked" /\ ~cancelled /\ ~closed
  /\ ppc' = "return"
  /\ pending' = NoItem
  /\ UNCHANGED <<Mapping, lastCall, ncalls, properties, output, cancelled,
                 cancelAt, closed, cmd, cpc, cur, received, fss, lfRet>>
  /\ UNCHANGED zfsVars

\* no case of the select is ready: the goroutine parks on both channels
P_SelectBlock ==
  /\ Alive /\ ppc = "send" /\ cpc # "parked" /\ ~cancelled /\ ~closed
  /\ ppc' = "blocked"
  /\ UNCHANGED <<Mapping, lastCall, ncalls, properties, output, pending, cancelled,
                 cancelAt, closed, cmd, cpc, cur, received, fss, lfRet>>
  /\ UNCHANGED zfsVars

\* the parked select was woken by the close of ctx.Done()
P_WakeDone ==
  /\ Alive /\ ppc = "blocked" /\ cancelled
  /\ ppc' = AfterSend(pending, TRUE)
  /\ pending' = NoItem
  /\ UNCHANGED <<Mapping, lastCall, ncalls, properties, output, cancelled, cancelAt,
                 closed, cmd, cpc, cur, received, fss, lfRet>>
  /\ UNCHANGED zfsVars

\* deferred cmd.Close(), registered once the subprocess has started
P_CloseCmd ==
  /\ Alive /\ ppc = "return"
  /\ cmd' = IF cmd = "started" THEN "closed" ELSE cmd
  /\ ppc' = "closeout"
  /\ UNCHANGED <<Mapping, lastCall, ncalls, properties, output, pending, cancelled,
                 cancelAt, closed, cpc, cur, received, fss, lfRet>>
  /\ UNCHANGED zfsVars

\* ZFSListChan without `defer close(out)`
P_CloseOutMissing ==
  /\ ppc = "closeout"
  /\ ppc' = "done"
  /\ UNCHANGED <<Mapping, lastCall, ncalls, properties, output, pending, cancelled,
                 cancelAt, closed, cpc, cmd, cur, received, fss, lfRet>>
  /\ UNCHANGED zfsVars

\* deferred close(out): wakes a parked receiver; panics on a closed channel
P_CloseOut ==
  /\ Alive /\ ppc = "closeout"
  /\ IF closed
     THEN ppc' = "panic" /\ UNCHANGED <<closed, cpc>>
     ELSE /\ ppc' = "done"
          /\ closed' = TRUE
          /\ cpc' = IF cpc = "parked" THEN "eof" ELSE cpc
  /\ UNCHANGED <<Mapping, lastCall, ncalls, properties, output, pending, cancelled,
                 cancelAt, cmd, cur, received, fss, lfRet>>
  /\ UNCHANGED zfsVars

\* -------------------------------------------------- receiving from the channel
\* a receive meets the sender parked in its select
C_RecvItem ==
  /\ Alive /\ cpc = "recv" /\ ppc = "blocked" /\ ~cancelled
  /\ cur' = pending
  /\ received' = Append(received, pending)
  /\ cpc' = "got"
  /\ ppc' = AfterSend(pending, FALSE)
  /\ pending' = NoItem
  /\ UNCHANGED <<Mapping, lastCall, ncalls, properties, output, cancelled, cancelAt,
                 closed, cmd, fss, lfRet>>
  /\ UNCHANGED zfsVars

\* a receive on the closed channel
C_RecvClosed ==
  /\ Alive /\ cpc = "recv" /\ closed
  /\ cpc' = "eof"
  /\ UNCHANGED <<Mapping, lastCall, ncalls, properties, output, ppc, pending,
                 cancelled, cancelAt, closed, cmd, cur, received, fss, lfRet>>
  /\ UNCHANGED zfsVars

\* a receive finds no sender: the consumer parks
C_RecvPark ==
  /\ Alive /\ cpc = "recv" /\ ~closed /\ ~(ppc = "blocked" /\ ~cancelled)
  /\ cpc' = "parked"
  /\ UNCHANGED <<Mapping, lastCall, ncalls, properties, output, ppc, pending,
                 cancelled, cancelAt, closed, cmd, cur, received, fss, lfRet>>
  /\ UNCHANGED zfsVars

\* ------------------------------------ a caller of ZFSListChan with a context
\* the caller takes the item and receives again
T_Next ==
  /\ Alive /\ cpc = "got"
  /\ cpc' = "recv"
  /\ cur' = NoItem
  /\ UNCHANGED <<Mapping, lastCall, ncalls, properties, output, ppc, pending,
                 cancelled, cancelAt, closed, cmd, received, fss, lfRet>>
  /\ UNCHANGED zfsVars

\* the caller stops receiving without draining the channel
T_Stop ==
  /\ Alive /\ cpc = "recv"
  /\ cpc' = "stopped"
  /\ UNCHANGED <<Mapping, lastCall, ncalls, properties, output, ppc, pending,
                 cancelled, cancelAt, closed, cmd, cur, received, fss, lfRet>>
  /\ UNCHANGED zfsVars

\* the caller cancels the context
Cancel ==
  /\ Alive /\ ~cancelled
  /\ cancelled' = TRUE
  /\ cancelAt' = ppc
  /\ UNCHANGED <<Mapping, lastCall, ncalls, properties, output, ppc, pending, closed,
                 cmd, cpc, cur, received, fss, lfRet>>
  /\ UNCHANGED zfsVars

\* ------------------------------------------------- Puller.ListFilesystems
NoRet == [set |-> FALSE, fss |-> <<>>, err |-> "none"]

\* the entry appended for one row
Filesystem(fields) == [Path |-> fields[1], ResumeToken |-> fields[2]]

\* ListFilesystems up to `go zfs.ZFSListChan(context.Background(), ch, props)`
CallListFilesystems ==
  /\ CanCall
  /\ ncalls' = ncalls + 1
  /\ IF InvertedFilter(Mapping).err
     THEN /\ lastCall' = [NoCall EXCEPT !.op = "ListFilesystems", !.err = "inverted"]
          /\ lfRet' = [set |-> TRUE, fss |-> <<>>, err |-> "inverted"]
          /\ UNCHANGED <<properties, output, ppc, pending, closed, cmd, cpc, cur,
                         received, fss>>
     ELSE /\ lastCall' = [NoCall EXCEPT !.op = "ListFilesystems"]
          /\ properties' = 2
          /\ output' = <<>>
          /\ ppc' = "command"
          /\ pending' = NoItem
          /\ closed' = FALSE
          /\ cmd' = "none"
          /\ cpc' = "recv"
          /\ cur' = NoItem
          /\ received' = <<>>
          /\ fss' = <<>>
          /\ lfRet' = NoRet
  /\ UNCHANGED <<Mapping, cancelled, cancelAt>>
  /\ UNCHANGED zfsVars

\* the body of `for res := range ch`
LF_Item ==
  /\ Alive /\ cpc = "got"
  /\ IF cur.err # "none"
     THEN /\ lfRet' = [set |-> TRUE, fss |-> <<>>, err |-> cur.err]
          /\ cpc' = "deferclose"
          /\ UNCHANGED fss
     ELSE /\ fss' = Append(fss, Filesystem(cur.fields))
          /\ cpc' = "recv"
          /\ UNCHANGED lfRet
  /\ cur' = NoItem
  /\ UNCHANGED <<Mapping, lastCall, ncalls, properties, output, ppc, pending,
                 cancelled, cancelAt, closed, cmd, received>>
  /\ UNCHANGED zfsVars

\* the range loop ends on the closed channel: return fss, nil
LF_Return ==
  /\ Alive /\ cpc = "eof"
  /\ lfRet' = [set |-> TRUE, fss |-> fss, err |-> "none"]
  /\ cpc' = "deferclose"
  /\ UNCHANGED <<Mapping, lastCall, ncalls, properties, output, ppc, pending,
                 cancelled, cancelAt, closed, cmd, cur, received, fss>>
  /\ UNCHANGED zfsVars

\* deferred close(ch) of ListFilesystems
LF_DeferClose ==
  /\ Alive /\ cpc = "deferclose"
  /\ IF closed
     THEN cpc' = "panic" /\ UNCHANGED closed
     ELSE cpc' = "returned" /\ closed' = TRUE
  /\ UNCHANGED <<Mapping, lastCall, ncalls, properties, output, ppc, pending,
                 cancelled, cancelAt, cmd, cur, received, fss, lfRet>>
  /\ UNCHANGED zfsVars

\* ---------------------------------------------------------- specifications
ZFSListChan ==
  \/ P_Command \/ P_Start \/ P_ScanLine \/ P_ScanEOF \/ P_ScanErr
  \/ P_SelectSend \/ P_SelectBlock \/ P_CloseCmd \/ P_CloseOut

Receives == C_RecvItem \/ C_RecvClosed \/ C_RecvPark

\* the endpoint: calls of the planner, with ListFilesystems running against
\* the ZFSListChan goroutine it starts
Init ==
  /\ Mapping \in Mappings
  /\ lastCall = NoCall
  /\ ncalls = 0
  /\ properties = 2
  /\ output = <<>>
  /\ ppc = "none"
  /\ pending = NoItem
  /\ cancelled = FALSE
  /\ cancelAt = "none"
  /\ closed = FALSE
  /\ cmd = "none"
  /\ cpc = "idle"
  /\ cur = NoItem
  /\ received = <<>>
  /\ fss = <<>>
  /\ lfRet = NoRet
  /\ path = NoPath
  /\ zcall = NoZCall

Next ==
  \/ CallListFilesystemVersions \/ CallReceive \/ CallSend \/ ChangePolicy
  \/ CallListFilesystems \/ LF_Item \/ LF_Return \/ LF_DeferClose
  \/ ZFSListChan \/ Receives

Spec == Init /\ [][Next]_vars

\* ZFSListChan run by a caller that holds a cancellable context
PropertyCounts == {1, 2}

InitChan ==
  /\ Mapping = [invertible |-> TRUE, inv |-> [p \in ValidPaths |-> "pass"]]
  /\ lastCall = NoCall
  /\ ncalls = 0
  /\ properties \in PropertyCounts
  /\ output = <<>>
  /\ ppc = "command"
  /\ pending = NoItem
  /\ cancelled = FALSE
  /\ cancelAt = "none"
  /\ closed = FALSE
  /\ cmd = "none"
  /\ cpc = "recv"
  /\ cur = NoItem
  /\ received = <<>>
  /\ fss = <<>>
  /\ lfRet = NoRet
  /\ path = NoPath
  /\ zcall = NoZCall

NextChan ==
  \/ ZFSListChan \/ P_SelectDone \/ P_WakeDone
  \/ Receives \/ T_Next \/ T_Stop \/ Cancel

SpecChan == InitChan /\ [][NextChan]_vars

\* the goroutines are scheduled fairly: ZFSListChan keeps running, and so
\* does a consumer that has not stopped receiving
LiveChan ==
  /\ InitChan /\ [][NextChan]_vars
  /\ WF_vars(ZFSListChan \/ P_SelectDone \/ P_WakeDone)
  /\ WF_vars(Receives \/ T_Next)

\* ------------------------------------------------- DatasetPath operations
\* longest raw path string, in characters
MaxPathLen == 3
\* longest DatasetPath, in components
MaxComps == 3

\* DatasetPath.Extend
Extend(p, extend) == p \o extend

\* DatasetPath.HasPrefix
HasPrefix(p, prefix) ==
  IF Len(prefix) > Len(p) THEN FALSE
  ELSE \A i \in 1..Len(prefix) : prefix[i] = p[i]

\* DatasetPath.TrimPrefix
TrimPrefix(p, prefix) ==
  IF ~HasPrefix(p, prefix) THEN p
  ELSE SubSeq(p, Len(prefix) + 1, Len(p))

\* DatasetPath.TrimNPrefixComps
TrimNPrefixComps(p, n) ==
  LET k == IF Len(p) < n THEN Len(p) ELSE n
  IN IF k = 0 THEN p ELSE SubSeq(p, k + 1, Len(p))

\* DatasetPath.Equal
Equal(p, q) ==
  IF Len(p) # Len(q) THEN FALSE
  ELSE \A i \in 1..Len(p) : p[i] = q[i]

\* DatasetPath.Copy
Copy(p) == SubSeq(p, 1, Len(p))

\* raw strings handed to NewDatasetPath
PathAlphabet == {"a", "/", "@"}
RawStrings == UNION { [1..k -> PathAlphabet] : k \in 0..MaxPathLen }
ParsedPaths == { NewDatasetPath(s).comps : s \in {t \in RawStrings : NewDatasetPath(t).err = "none"} }

\* lists of strings DatasetPath.UnmarshalJSON may be given
JSONStrings == { <<>>, <<"a">>, <<"b">>, <<"a", "/", "b">> }
JSONLists == UNION { [1..k -> JSONStrings] : k \in 0..2 }

PathCall(fn, arg, err, comps) == [fn |-> fn, arg |-> arg, err |-> err, comps |-> comps]

\* p, err := NewDatasetPath(s); the caller keeps p only without error
PathNew ==
  /\ \E s \in RawStrings :
       LET r == NewDatasetPath(s) IN
       /\ path' = IF r.err = "none" THEN [comps |-> r.comps, origin |-> "parsed"] ELSE path
       /\ zcall' = PathCall("NewDatasetPath", s, r.err, r.comps)
  /\ UNCHANGED <<Mapping, lastCall, ncalls>>
  /\ UNCHANGED listVars

\* p.Extend(q) for a parsed q
PathExtend ==
  /\ path.origin # "none"
  /\ \E q \in ParsedPaths :
       /\ Len(path.comps) + Len(q) <= MaxComps
       /\ path' = [path EXCEPT !.comps = Extend(path.comps, q)]
       /\ zcall' = PathCall("Extend", q, "none", Extend(path.comps, q))
  /\ UNCHANGED <<Mapping, lastCall, ncalls>>
  /\ UNCHANGED listVars

\* p.TrimPrefix(q) for a parsed q
PathTrimPrefix ==
  /\ path.origin # "none"
  /\ \E q \in ParsedPaths :
       /\ path' = [path EXCEPT !.comps = TrimPrefix(path.comps, q)]
       /\ zcall' = PathCall("TrimPrefix", q, "none", TrimPrefix(path.comps, q))
  /\ UNCHANGED <<Mapping, lastCall, ncalls>>
  /\ UNCHANGED listVars

\* p.TrimNPrefixComps(n)
PathTrimN ==
  /\ path.origin # "none"
  /\ \E n \in 0..(MaxComps + 1) :
       /\ path' = [path EXCEPT !.comps = TrimNPrefixComps(path.comps, n)]
       /\ zcall' = PathCall("TrimNPrefixComps", n, "none", TrimNPrefixComps(path.comps, n))
  /\ UNCHANGED <<Mapping, lastCall, ncalls>>
  /\ UNCHANGED listVars

\* p = p.Copy()
PathCopy ==
  /\ path.origin # "none"
  /\ path' = [path EXCEPT !.comps = Copy(path.comps)]
  /\ zcall' = PathCall("Copy", path.comps, "none", Copy(path.comps))
  /\ UNCHANGED <<Mapping, lastCall, ncalls>>
  /\ UNCHANGED listVars

\* p.UnmarshalJSON(b): the comps are whatever list of strings b holds
PathUnmarshalJSON ==
  /\ \E l \in JSONLists :
       /\ path' = [comps |-> l, origin |-> "json"]
       /\ zcall' = PathCall("UnmarshalJSON", l, "none", l)
  /\ UNCHANGED <<Mapping, lastCall, ncalls>>
  /\ UNCHANGED listVars

\* NewDatasetPath(p.ToString())
PathReparse ==
  /\ path.origin # "none"
  /\ LET r == NewDatasetPath(ToString(path.comps)) IN
       zcall' = PathCall("Reparse", path.comps, r.err, r.comps)
  /\ UNCHANGED path
  /\ UNCHANGED <<Mapping, lastCall, ncalls>>
  /\ UNCHANGED listVars

NextPath ==
  \/ PathNew \/ PathExtend \/ PathTrimPrefix \/ PathTrimN \/ PathCopy
  \/ PathUnmarshalJSON \/ PathReparse

\* DatasetPath values built, combined and re-parsed
InitPath == Init /\ Mapping = [invertible |-> TRUE, inv |-> PassAll]
SpecPath == InitPath /\ [][NextPath]_vars

\* ------------------------------------------- ZFSList, ZFSGet, ZFSSet
\* what the zfs list subprocess gives ZFSList: whether the pipe and the
\* start succeed, the lines scanned, how the scan ends ("eof", or "err" for an
\* over-long line or a read error), and what cmd.Wait() gives ("hang": the
\* subprocess blocks writing output nobody reads any more)
ListRuns ==
  { e \in [pipe : BOOLEAN, start : BOOLEAN,
           lines : UNION { [1..k -> Lines] : k \in 0..MaxLines },
           scanEnd : {"eof", "err"}, wait : {"ok", "fail", "hang"}] :
      /\ e.wait = "hang" => e.scanEnd = "err"
      /\ ~(e.pipe /\ e.start) => (e.lines = <<>> /\ e.scanEnd = "eof" /\ e.wait = "ok")
      /\ ~e.pipe => e.start }

\* the scan loop of ZFSList: the rows appended before the loop ends, and
\* whether it ended on a line with the wrong number of fields
RECURSIVE ScanRows(_, _, _)
ScanRows(lines, n, res) ==
  IF lines = <<>> THEN [res |-> res, bad |-> FALSE]
  ELSE LET fields == SplitN(Head(lines), "\t", n)
       IN IF Len(fields) # n THEN [res |-> res, bad |-> TRUE]
          ELSE ScanRows(Tail(lines), n, Append(res, fields))

ListRet(res, err, started, waited, returned) ==
  [res |-> res, err |-> err, started |-> started, waited |-> waited,
   returned |-> returned]

\* ZFSList(properties, zfsArgs...)
ZFSList(n, e) ==
  IF ~e.pipe THEN ListRet(<<>>, "pipe", FALSE, FALSE, TRUE)
  ELSE IF ~e.start THEN ListRet(<<>>, "start", FALSE, FALSE, TRUE)
  ELSE LET sc == ScanRows(e.lines, n, <<>>)
       IN IF sc.bad THEN ListRet(sc.res, "unexpected output", TRUE, FALSE, TRUE)
          ELSE IF e.wait = "hang" THEN ListRet(<<>>, "none", TRUE, FALSE, FALSE)
          ELSE IF e.wait = "fail" THEN ListRet(<<>>, "ZFSError", TRUE, TRUE, TRUE)
          ELSE ListRet(sc.res, "none", TRUE, TRUE, TRUE)

DoZFSList ==
  /\ \E n \in PropertyCounts, e \in ListRuns :
       zcall' = [fn |-> "ZFSList", n |-> n, run |-> e, ret |-> ZFSList(n, e)]
  /\ UNCHANGED <<Mapping, lastCall, ncalls, path>>
  /\ UNCHANGED listVars

\* strings.Fields(s): the maximal runs of non-space characters
Whitespace == {" ", "\t", "\n", "\r"}
RECURSIVE FieldsFrom(_, _)
FieldsFrom(s, field) ==
  IF s = <<>> THEN (IF field = <<>> THEN <<>> ELSE <<field>>)
  ELSE IF Head(s) \in Whitespace
       THEN (IF field = <<>> THEN <<>> ELSE <<field>>) \o FieldsFrom(Tail(s), <<>>)
       ELSE FieldsFrom(Tail(s), Append(field, Head(s)))
Fields(s) == FieldsFrom(s, <<>>)

\* a ZFSProperties map as a set of <<name, value>> pairs; p.m[key] = val
MapSet(m, key, val) == {kv \in m : kv[1] # key} \cup {<<key, val>>}

\* the loop of ZFSGet over the lines of the output
RECURSIVE GetLines(_, _)
GetLines(lines, m) ==
  IF lines = <<>> THEN [err |-> "none", m |-> m]
  ELSE LET fields == Fields(Head(lines))
       IN IF Len(fields) # 2 THEN [err |-> "pairs", m |-> {}]
          ELSE GetLines(Tail(lines), MapSet(m, fields[1], fields[2]))

\* ZFSGet(fs, props): exitOk is whether cmd.CombinedOutput() gave no error
ZFSGet(props, exitOk, o) ==
  IF ~exitOk THEN [err |-> "exec", m |-> {}]
  ELSE LET lines == Split(o, "\n")
       IN IF Len(lines) # Len(props) THEN [err |-> "count", m |-> {}]
          ELSE GetLines(lines, {})

\* property lists asked of zfs get, and outputs of the subprocess
GetProps == { << <<"p">> >>, << <<"p">>, <<"q">> >> }
GetOutputs ==
  { <<>>,
    <<"p", "\t", "x">>,
    <<"p", "\t", "x", "\n">>,
    <<"p", "\t", "x", "\n", "\n">>,
    <<"p", "\n">>,
    <<"p", " ", "x", " ", "y", "\n">>,
    <<"p", "\t", "x", "\n", "q", "\t", "y">>,
    <<"p", "\t", "x", "\n", "q", "\t", "y", "\n">>,
    <<"p", "\t", "x", "\n", "q", "\n">> }

DoZFSGet ==
  /\ \E props \in GetProps, exitOk \in BOOLEAN, o \in GetOutputs :
       zcall' = [fn |-> "ZFSGet", props |-> props, exitOk |-> exitOk, output |-> o,
                 ret |-> ZFSGet(props, exitOk, o)]
  /\ UNCHANGED <<Mapping, lastCall, ncalls, path>>
  /\ UNCHANGED listVars

\* an appendArgs that tests the value for the delimiter
AppendArgsChecksValue(kvs, args) ==
  LET RECURSIVE Loop(_, _)
      Loop(rest, acc) ==
        IF rest = <<>> THEN [err |-> "none", args |-> acc]
        ELSE IF ContainsAny(Head(rest)[2], {"="}) THEN [err |-> "delimiter", args |-> acc]
        ELSE Loop(Tail(rest), Append(acc, Head(rest)[1] \o <<"=">> \o Head(rest)[2]))
  IN Loop(kvs, args)

\* ZFSProperties.appendArgs: kvs is the map in the order the range visits it
AppendArgs(kvs, args) ==
  LET RECURSIVE Loop(_, _)
      Loop(rest, acc) ==
        IF rest = <<>> THEN [err |-> "none", args |-> acc]
        ELSE IF ContainsAny(Head(rest)[1], {"="}) THEN [err |-> "delimiter", args |-> acc]
        ELSE Loop(Tail(rest), Append(acc, Head(rest)[1] \o <<"=">> \o Head(rest)[2]))
  IN Loop(kvs, args)

\* ZFSSet(fs, props): execs are the commands on which Start was called
ZFSSet(fs, kvs, startOk, waitOk) ==
  LET a == AppendArgs(kvs, << <<"s", "e", "t">> >>)
  IN IF a.err # "none" THEN [err |-> a.err, execs |-> <<>>]
     ELSE LET args == Append(a.args, ToString(fs))
          IN IF ~startOk THEN [err |-> "start", execs |-> <<args>>]
             ELSE IF ~waitOk THEN [err |-> "ZFSError", execs |-> <<args>>]
             ELSE [err |-> "none", execs |-> <<args>>]

\* property names and values; a map is visited in any order
PropNames == { <<"p">>, <<"q">>, <<"p", "=", "q">> }
PropValues == { <<"v">>, <<"=">> }
PropOrders ==
  { o \in UNION { [1..k -> PropNames] : k \in 0..Cardinality(PropNames) } :
      \A i, j \in 1..Len(o) : i # j => o[i] # o[j] }

DoZFSSet ==
  /\ \E fs \in ValidPaths, o \in PropOrders, v \in PropValues,
        startOk \in BOOLEAN, waitOk \in BOOLEAN :
       LET kvs == [i \in 1..Len(o) |-> <<o[i], v>>] IN
       zcall' = [fn |-> "ZFSSet", fs |-> fs, kvs |-> kvs,
                 ret |-> ZFSSet(fs, kvs, startOk, waitOk)]
  /\ UNCHANGED <<Mapping, lastCall, ncalls, path>>
  /\ UNCHANGED listVars

NextProc == DoZFSList \/ DoZFSGet \/ DoZFSSet

\* the synchronous zfs calls, each on inputs and subprocess behaviour of its own
InitProc == Init /\ Mapping = [invertible |-> TRUE, inv |-> PassAll]
SpecProc == InitProc /\ [][NextProc]_vars

\* ------------------------------------------------------------------ claims
FilterOps == {"ListFilesystemVersions", "Receive"}
Ran(call, sub) == \E i \in 1..Len(call.execs) : call.execs[i][1] = sub

\* C1: a ListFilesystemVersions or Receive call on a path the inverted filter
\* rejects with (false, nil) fails with the filtered error and invokes no zfs
\* subcommand.
C1_FilteredNoSubprocess ==
  (lastCall.op \in FilterOps /\ lastCall.decision = "reject")
    => (lastCall.err = "filtered" /\ lastCall.execs = <<>>)

C1_Witness ==
  /\ lastCall.op = "Receive" /\ lastCall.decision = "reject"
  /\ lastCall.token # <<>> /\ lastCall.err = "filtered"

\* C2: a Receive that passes the filter with a non-empty resume token runs
\* zfs recv only if the local token was read and equals the requested one;
\* on a read failure or any mismatch it returns an error without zfs recv.
C2_ResumeTokenMustMatch ==
  (lastCall.op = "Receive" /\ lastCall.decision = "pass" /\ lastCall.token # <<>>)
    => LET match == ~lastCall.get.err /\ lastCall.get.token = lastCall.token
       IN /\ Ran(lastCall, "recv") => match
          /\ ~match => (lastCall.err \in {"get", "mismatch"} /\ ~Ran(lastCall, "recv"))
          /\ Ran(lastCall, "get")

C2_Witness ==
  /\ lastCall.op = "Receive" /\ lastCall.decision = "pass"
  /\ lastCall.token # <<>> /\ ~lastCall.get.err /\ lastCall.get.token = <<>>
  /\ lastCall.err = "mismatch"

\* C3: every item delivered on the queue is a row of exactly `properties`
\* fields without error, or an error item; an error item is the last item
\* delivered (so there is at most one), and once the queue is closed
\* ZFSListChan is past its last send.
C3_ItemsWellFormed ==
  /\ \A i \in 1..Len(received) :
       \/ received[i].err = "none" /\ Len(received[i].fields) = properties
       \/ received[i].err \notin {"none", "unset"} /\ i = Len(received)
  /\ closed => ppc \notin {"command", "start", "scan", "send", "blocked"}

C3_Witness ==
  /\ Len(received) = 2 /\ received[1].err = "none" /\ received[2].err = "unexpected output"
  /\ closed

\* C4: the rows the consumer has received are the split of the first lines
\* the subprocess emitted, in order, none duplicated, skipped or reordered.
Rows == SelectSeq(received, LAMBDA it : it.err = "none")
C4_RowsArePrefix ==
  /\ Len(Rows) <= Len(output)
  /\ \A i \in 1..Len(Rows) : Rows[i].fields = SplitN(output[i], "\t", properties)

C4_Witness ==
  /\ Len(Rows) = 2 /\ output[1] # output[2] /\ cancelled /\ ppc = "done"

\* C5 as stated: once the cancellation has fired while a result was pending
\* delivery (built, not yet delivered), nothing is delivered any more, and
\* when ZFSListChan is done the queue is closed and the subprocess closed.
C5_Original ==
  [][ /\ cancelAt \in {"send", "blocked"} => received' = received
      /\ ppc' = "done" => (closed' /\ cmd' # "started") ]_vars

\* C5 amended: once the cancellation has fired while ZFSListChan was blocked
\* in the send of a result, nothing is delivered any more; and whenever
\* ZFSListChan is done the queue is closed and the subprocess closed.
C5_BlockedSendCancelled ==
  [][ /\ cancelAt = "blocked" => received' = received
      /\ ppc' = "done" => (closed' /\ cmd' # "started") ]_vars

C5_Witness ==
  /\ cancelAt = "blocked" /\ ppc = "done" /\ closed /\ cmd = "closed"
  /\ Len(received) < Len(output)

\* C6: under fair scheduling, if the consumer never stops receiving or the
\* cancellation eventually fires, ZFSListChan eventually closes the queue
\* and returns.
C6_EventuallyClosed ==
  ([](cpc # "stopped") \/ <>cancelled) => <>(ppc = "done" /\ closed)

C6_Witness ==
  /\ ppc = "done" /\ closed /\ cancelled /\ cpc = "stopped" /\ cmd = "closed"

\* C7: while the consumer has stopped receiving and the cancellation has not
\* fired, a ZFSListChan with an item to deliver stays in its send: it keeps
\* the item, the queue stays open and the subprocess handle is not closed.
C7_BlockedForever ==
  [][ (cpc = "stopped" /\ ppc \in {"send", "blocked"} /\ ~cancelled /\ ~cancelled')
        => /\ ppc' = "blocked" /\ pending' = pending
           /\ ~closed' /\ cmd' = cmd /\ cmd' # "closed" ]_vars

C7_Witness ==
  /\ cpc = "stopped" /\ ppc = "blocked" /\ ~cancelled /\ cmd = "started" /\ ~closed

\* C8: the value ListFilesystems returns without error has one entry per
\* listed row, in order, with the row's name as Path and the row's token as
\* ResumeToken, a token of "-" replaced by the empty string.
NormalizedToken(t) == IF t = <<"-">> THEN <<>> ELSE t
C8_TokensNormalized ==
  (lfRet.set /\ lfRet.err = "none")
    => /\ Len(lfRet.fss) = Len(Rows)
       /\ \A i \in 1..Len(lfRet.fss) :
            /\ lfRet.fss[i].Path = Rows[i].fields[1]
            /\ lfRet.fss[i].ResumeToken = NormalizedToken(Rows[i].fields[2])

\* C9: the accept/reject outcome of every ListFilesystemVersions and Receive
\* call is the decision of the inverted filter of the policy in force during
\* that call.
C9_DecisionPerCall ==
  (lastCall.op \in FilterOps /\ lastCall.decision # "n/a")
    => /\ lastCall.err = "filtered" <=> lastCall.decision = "reject"
       /\ lastCall.err = "filter" <=> lastCall.decision = "err"
       /\ lastCall.decision = "pass" => lastCall.err \notin {"validation", "inverted"}

C9_Witness ==
  /\ lastCall.op \in FilterOps /\ lastCall.flipped
  /\ lastCall.decision = "pass" /\ lastCall.err = "none"

\* C10: every Send call returns an error, invokes no zfs subcommand and
\* leaves the policy and the listing state as they were.
C10_SendAlwaysFails ==
  [][ (ncalls' = ncalls + 1 /\ lastCall'.op = "Send")
        => /\ lastCall'.err # "none" /\ lastCall'.execs = <<>>
           /\ Mapping' = Mapping /\ listVars' = listVars ]_vars

C10_Witness ==
  /\ lastCall.op = "Send" /\ lastCall.err # "none" /\ ~Mapping.invertible /\ ncalls = 2

WellFormed(comps) ==
  \A i \in 1..Len(comps) : comps[i] # <<>> /\ ~ContainsAny(comps[i], FORBIDDEN)

\* C11: every path that NewDatasetPath returned without error, also after
\* any Extend, TrimPrefix, TrimNPrefixComps and Copy, has only non-empty
\* components without forbidden characters.
C11_ComponentsValid ==
  path.origin = "parsed" => WellFormed(path.comps)

\* C12 as stated: for every sequence of non-empty components without
\* forbidden characters, parsing its string form succeeds and gives an
\* Equal path.
C12_Original ==
  (zcall.fn = "Reparse" /\ WellFormed(zcall.arg))
    => (zcall.err = "none" /\ Equal(zcall.comps, zcall.arg))

\* C12 amended: the same for components that also contain no "/".
SlashFree(comps) == \A i \in 1..Len(comps) : ~ContainsAny(comps[i], {"/"})
C12_RoundTrip ==
  (zcall.fn = "Reparse" /\ WellFormed(zcall.arg) /\ SlashFree(zcall.arg))
    => (zcall.err = "none" /\ Equal(zcall.comps, zcall.arg))

C12_Witness ==
  /\ zcall.fn = "Reparse" /\ WellFormed(zcall.arg) /\ SlashFree(zcall.arg)
  /\ Len(zcall.arg) = 2 /\ zcall.arg[1] # zcall.arg[2] /\ zcall.err = "none"

\* C13: a ZFSList call that started its subprocess and scanned a line with
\* fewer tab-separated fields than requested properties returns the
\* protocol-violation error and no rows.
HasShortLine(lines, n) ==
  \E i \in 1..Len(lines) : Len(Split(lines[i], "\t")) < n
C13_ShortLineNoRows ==
  (zcall.fn = "ZFSList" /\ zcall.ret.started /\ HasShortLine(zcall.run.lines, zcall.n))
    => (zcall.ret.err = "unexpected output" /\ zcall.ret.res = <<>>)

\* C14: a ZFSList call that returns without error has scanned every output
\* line, its subprocess exited successfully and the result is the row of
\* every line in order; a call whose scan failed returns an error.
AllRows(lines, n) == [i \in 1..Len(lines) |-> SplitN(lines[i], "\t", n)]
C14_ListResult ==
  (zcall.fn = "ZFSList" /\ zcall.ret.returned)
    => /\ zcall.ret.err = "none"
            => /\ zcall.run.pipe /\ zcall.run.start
               /\ zcall.run.scanEnd = "eof" /\ zcall.run.wait = "ok"
               /\ zcall.ret.res = AllRows(zcall.run.lines, zcall.n)
       /\ (zcall.ret.started /\ zcall.run.scanEnd = "err") => zcall.ret.err # "none"

\* C15: when zfs get exits successfully and prints exactly one
\* newline-terminated name/value line per requested property, ZFSGet succeeds
\* and maps each requested name to its value; when the number of lines
\* differs from the number of properties, or a line is not two
\* whitespace-separated tokens, ZFSGet fails.
GetValues == {<<"x">>, <<"y">>}
RECURSIVE GetOutputFor(_, _)
GetOutputFor(props, vals) ==
  IF props = <<>> THEN <<>>
  ELSE Head(props) \o <<"\t">> \o Head(vals) \o <<"\n">>
         \o GetOutputFor(Tail(props), Tail(vals))
\* the lines of an output: the pieces between newlines, without the empty
\* piece after a final newline
OutputLines(o) ==
  LET pieces == Split(o, "\n")
  IN IF o # <<>> /\ o[Len(o)] = "\n" THEN SubSeq(pieces, 1, Len(pieces) - 1) ELSE pieces
C15_GetResult ==
  (zcall.fn = "ZFSGet" /\ zcall.exitOk)
    => /\ \A vals \in [1..Len(zcall.props) -> GetValues] :
            zcall.output = GetOutputFor(zcall.props, vals)
              => /\ zcall.ret.err = "none"
                 /\ zcall.ret.m = { <<zcall.props[i], vals[i]>> : i \in 1..Len(zcall.props) }
       /\ (\/ Len(OutputLines(zcall.output)) # Len(zcall.props)
           \/ \E i \in 1..Len(OutputLines(zcall.output)) :
                Len(Fields(OutputLines(zcall.output)[i])) # 2)
            => zcall.ret.err # "none"

\* C16: a ZFSSet call whose property set has a name containing "=" returns
\* an error and starts no subprocess.
HasDelimiterName(kvs) == \E i \in 1..Len(kvs) : ContainsAny(kvs[i][1], {"="})
C16_DelimiterRejected ==
  (zcall.fn = "ZFSSet" /\ HasDelimiterName(zcall.kvs))
    => (zcall.ret.err # "none" /\ zcall.ret.execs = <<>>)

C16_Witness ==
  /\ zcall.fn = "ZFSSet" /\ Len(zcall.kvs) = 3
  /\ ContainsAny(zcall.kvs[3][1], {"="}) /\ zcall.kvs[3][2] = <<"v">>
  /\ zcall.ret.err = "delimiter" /\ zcall.ret.execs = <<>>

\* C17: a ListFilesystemVersions or Receive call whose dataset path string
\* has a forbidden character or ends in "/" returns the validation error,
\* which is not the filtered error, and invokes no zfs subcommand.
Malformed(s) ==
  \/ \E i \in 1..Len(s) : s[i] \in FORBIDDEN
  \/ (Len(s) > 0 /\ s[Len(s)] = "/")
C17_MalformedRejected ==
  (lastCall.op \in FilterOps /\ Malformed(lastCall.fs))
    => /\ lastCall.err = "validation" /\ lastCall.err # "filtered"
       /\ lastCall.execs = <<>>

C17_Witness ==
  /\ lastCall.op = "Receive" /\ lastCall.fs = <<"a", "/">> /\ lastCall.token # <<>>
  /\ ~Mapping.invertible /\ lastCall.err = "validation" /\ lastCall.execs = <<>>

\* C18: a listing call that started its subprocess has reaped it when the
\* call returns: a returned ZFSList has waited for it, and a ZFSListChan
\* producer that has ended has closed it.
C18_Reaped ==
  /\ (zcall.fn = "ZFSList" /\ zcall.ret.started /\ zcall.ret.returned)
       => zcall.ret.waited
  /\ ppc \in {"done", "panic"} => cmd # "started"

\* C19: in a listing through ListFilesystems the channel is closed exactly
\* once (no close of a closed channel, by either side) and the producer
\* attempts no send once the channel is closed.
C19_ClosedOnce ==
  /\ ppc # "panic" /\ cpc # "panic"
  /\ closed => ppc \notin {"send", "blocked"}

====
